---- MODULE Spec2Model ----
(***************************************************************************)
(* A model of the core_burn crate: the KV cache (kv_cache.rs), the rotary  *)
(* positional embedding (rope.rs) and the Gemma attention layer            *)
(* (architectures/gemma/attention.rs).                                     *)
(*                                                                         *)
(* Tensors are modelled by their shape and by what each position of the    *)
(* sequence axis holds: a tensor of shape [b, h, s, d] is the record       *)
(* [b, h, d, seq] with Len(seq) = s.                                       *)
(***************************************************************************)
EXTENDS Integers, Sequences, FiniteSets, TLC

(***************************************************************************)
(* Bounds of the model.                                                    *)
(***************************************************************************)
\* largest max_len a cache is constructed with
MaxLen == 3

Batches    == {1, 2}
Heads      == {1, 2}
HeadDims   == {2, 4}
\* the sequence lengths of one new key/value chunk
NewSeqLens == {0, 1, 2}
\* what tells one appended chunk from another
Tags       == {"a", "b"}
\* the <<batch, heads, head_dim>> the caches of the model are constructed with
CacheShapes == {<<1, 2, 4>>, <<2, 1, 2>>}

VARIABLES
    cache_data,     \* KVCache.cache_data: the MhaCache [key, value] behind its mutex
    current_len,    \* KVCache.current_len: the counter behind its mutex
    max_len,        \* KVCache.max_len
    poisoned,       \* which of the two mutexes is poisoned
    ctor,           \* the arguments KVCache::new was called with
    last,           \* the last call on the cache: operation, inputs, state before, result
    fresh,          \* a cache built by KVCache::new(ctor) at the last reset (used: of a
                    \* non-empty cache), given the same appends as the cache since
    singles,        \* single-token appends since construction/reset, -1 once another append was made
    config,         \* the GemmaAttentionConfig in use
    rotary,         \* what RotaryPositionalEmbedding::new(config.rope_config) returned
    attn,           \* what config.init() returned
    held,           \* the Option<MhaCache> the caller carries from one forward call to the next
    fwd,            \* the last forward call: inputs and result
    rcall,          \* the last RotaryPositionalEmbedding::forward call: inputs and result
    threads,        \* the threads that share one cache: where each is in its call, its locals
    guards,         \* which thread holds the MutexGuard of cache_data and of current_len
    vcall,          \* the last ModelConfigValidator::validate_core_config call: input and result
    scall,          \* the last sanitize_path_component call: input and result
    arcs,           \* the Arc<Mutex<..>> allocations of a cache and its clones, by address
    handles,        \* the KVCache structs that exist: the constructed one and its clones
    hcall           \* the last call made through one of the handles, and its result

cacheVars == <<cache_data, current_len, max_len, poisoned, ctor, last, fresh, singles>>

attnVars == <<config, rotary, attn, held, fwd, rcall>>

concVars == <<threads, guards>>

utilVars == <<vcall, scall>>

cloneVars == <<arcs, handles, hcall>>

vars == <<cacheVars, attnVars, concVars, utilVars, cloneVars>>

(***************************************************************************)
(* Tensors.                                                                *)
(***************************************************************************)
\* Tensor::zeros([batch_size, num_heads, 0, head_dim])
Zeros(b, h, d) == [b |-> b, h |-> h, d |-> d, seq |-> <<>>]

\* Tensor::dims(): <<batch, heads, seq_len, head_dim>>; axis k of the code is index k+1
dims(t) == <<t.b, t.h, Len(t.seq), t.d>>

\* a chunk of n positions tagged tag
Chunk(tag, n) == [i \in 1 .. n |-> <<tag, i>>]

Cat_in_front(a, b) ==
    IF a.b = b.b /\ a.h = b.h /\ a.d = b.d
    THEN [ok |-> TRUE,  t |-> [a EXCEPT !.seq = b.seq \o a.seq]]
    ELSE [ok |-> FALSE, t |-> a]

\* a.cat(vec![b], 2): concatenation along the sequence axis; an error when another axis differs
Cat(a, b) ==
    IF a.b = b.b /\ a.h = b.h /\ a.d = b.d
    THEN [ok |-> TRUE,  t |-> [a EXCEPT !.seq = a.seq \o b.seq]]
    ELSE [ok |-> FALSE, t |-> a]

NoTensor == [b |-> 0, h |-> 0, d |-> 0, seq |-> <<>>]

(***************************************************************************)
(* KVCacheError and results.                                               *)
(***************************************************************************)
PositionOutOfBounds == "PositionOutOfBounds"
LockFailed          == "LockFailed"
IncompatibleShape   == "IncompatibleShape"
BurnTensor          == "BurnTensor"

Ok(k, v, n) == [kind |-> "Ok",  err |-> "", key |-> k, value |-> v, len |-> n]
Err(e)      == [kind |-> "Err", err |-> e,  key |-> NoTensor, value |-> NoTensor, len |-> 0]
NoResult    == [kind |-> "None", err |-> "", key |-> NoTensor, value |-> NoTensor, len |-> 0]

(***************************************************************************)
(* KVCache.  self is the record of the cache's fields.                     *)
(***************************************************************************)
KVCache_new(batch_size, num_heads, maxlen, head_dim) ==
    [cache_data  |-> [key |-> Zeros(batch_size, num_heads, head_dim),
                      value |-> Zeros(batch_size, num_heads, head_dim)],
     max_len     |-> maxlen,
     current_len |-> 0,
     poisoned    |-> [cache_data |-> FALSE, current_len |-> FALSE]]

\* an early return: the guards are dropped and self is as it was
Return(self, r) == [self |-> self, res |-> r]

exceeds_max_len_off_by_one(cur, new_seq_len, maxlen) == cur + new_seq_len >= maxlen

\* line 118: *current_len_guard + new_seq_len > self.max_len
exceeds_max_len(cur, new_seq_len, maxlen) == cur + new_seq_len > maxlen

shape_mismatch_no_heads(current_key_dims, new_key_dims, new_value_dims) ==
    \/ current_key_dims[1] # new_key_dims[1]
    \/ current_key_dims[4] # new_key_dims[4]
    \/ new_key_dims[1] # new_value_dims[1]
    \/ new_key_dims[4] # new_value_dims[4]

\* lines 133-140: batch, heads and head_dim are compared, the sequence axis is not
shape_mismatch(current_key_dims, new_key_dims, new_value_dims) ==
    \/ current_key_dims[1] # new_key_dims[1]
    \/ current_key_dims[2] # new_key_dims[2]
    \/ current_key_dims[4] # new_key_dims[4]
    \/ new_key_dims[1] # new_value_dims[1]
    \/ new_key_dims[2] # new_value_dims[2]
    \/ new_key_dims[4] # new_value_dims[4]

advance_len_by_one(cur, new_seq_len) == cur + 1

\* line 156: *current_len_guard += new_seq_len
advance_len(cur, new_seq_len) == cur + new_seq_len

update_and_get_len_first(self, new_key_states, new_value_states) ==
    IF self.poisoned.cache_data \/ self.poisoned.current_len
    THEN Return(self, Err(LockFailed))
    ELSE
    LET new_seq_len == dims(new_key_states)[3]
        bumped == [self EXCEPT !.current_len = advance_len(@, new_seq_len)]
    IN  IF exceeds_max_len(self.current_len, new_seq_len, self.max_len)
        THEN Return(self, Err(PositionOutOfBounds))
        ELSE IF shape_mismatch(dims(self.cache_data.key), dims(new_key_states),
                               dims(new_value_states))
        THEN Return(bumped, Err(IncompatibleShape))
        ELSE
        LET updated_k == Cat(self.cache_data.key, new_key_states)
            updated_v == Cat(self.cache_data.value, new_value_states)
        IN  IF ~updated_k.ok \/ ~updated_v.ok THEN Return(bumped, Err(BurnTensor))
            ELSE [self |-> [bumped EXCEPT !.cache_data =
                                [key |-> updated_k.t, value |-> updated_v.t]],
                  res  |-> Ok(updated_k.t, updated_v.t, 0)]

\* lines 100-164
update_and_get(self, new_key_states, new_value_states) ==
    IF self.poisoned.cache_data THEN Return(self, Err(LockFailed))
    ELSE IF self.poisoned.current_len THEN Return(self, Err(LockFailed))
    ELSE
    LET new_seq_len == dims(new_key_states)[3]
    IN  IF exceeds_max_len(self.current_len, new_seq_len, self.max_len)
        THEN Return(self, Err(PositionOutOfBounds))
        ELSE IF shape_mismatch(dims(self.cache_data.key), dims(new_key_states),
                               dims(new_value_states))
        THEN Return(self, Err(IncompatibleShape))
        ELSE
        LET updated_k == Cat(self.cache_data.key, new_key_states)
            updated_v == Cat(self.cache_data.value, new_value_states)
        IN  IF ~updated_k.ok THEN Return(self, Err(BurnTensor))
            ELSE IF ~updated_v.ok THEN Return(self, Err(BurnTensor))
            ELSE [self |-> [self EXCEPT
                               !.current_len = advance_len(@, new_seq_len),
                               !.cache_data  = [key |-> updated_k.t, value |-> updated_v.t]],
                  res  |-> Ok(updated_k.t, updated_v.t, 0)]

get_current_values_take(self) ==
    IF self.poisoned.cache_data THEN Return(self, Err(LockFailed))
    ELSE [self |-> [self EXCEPT !.cache_data =
                       [key   |-> [self.cache_data.key EXCEPT !.seq = <<>>],
                        value |-> [self.cache_data.value EXCEPT !.seq = <<>>]]],
          res  |-> Ok(self.cache_data.key, self.cache_data.value, 0)]

\* lines 170-176
get_current_values(self) ==
    IF self.poisoned.cache_data THEN Return(self, Err(LockFailed))
    ELSE Return(self, Ok(self.cache_data.key, self.cache_data.value, 0))

current_seq_length_into_inner(self) ==
    Return(self, Ok(NoTensor, NoTensor, self.current_len))

\* lines 179-185
current_seq_length(self) ==
    IF self.poisoned.current_len THEN Return(self, Err(LockFailed))
    ELSE Return(self, Ok(NoTensor, NoTensor, self.current_len))

\* lines 188-190
max_sequence_length(self) == Return(self, Ok(NoTensor, NoTensor, self.max_len))

reset_keeps_len(self) ==
    IF self.poisoned.cache_data \/ self.poisoned.current_len
    THEN Return(self, Err(LockFailed))
    ELSE LET d == dims(self.cache_data.key)
         IN  [self |-> [self EXCEPT !.cache_data = [key   |-> Zeros(d[1], d[2], d[4]),
                                                    value |-> Zeros(d[1], d[2], d[4])]],
              res  |-> Ok(NoTensor, NoTensor, 0)]

\* lines 197-220
reset(self) ==
    IF self.poisoned.cache_data THEN Return(self, Err(LockFailed))
    ELSE IF self.poisoned.current_len THEN Return(self, Err(LockFailed))
    ELSE LET d == dims(self.cache_data.key)
             batch_size == d[1]
             num_heads  == d[2]
             head_dim   == d[4]
         IN  [self |-> [self EXCEPT
                           !.cache_data  = [key   |-> Zeros(batch_size, num_heads, head_dim),
                                            value |-> Zeros(batch_size, num_heads, head_dim)],
                           !.current_len = 0],
              res  |-> Ok(NoTensor, NoTensor, 0)]

(***************************************************************************)
(* RotaryPositionalEmbedding (rope.rs).  The cos/sin tables are modelled   *)
(* by their number of rows; a rotated position of a tensor records the     *)
(* table row it was rotated with.                                          *)
(***************************************************************************)
InvalidConfig == "InvalidConfig"

NoRope == [dim |-> 0, max_seq_len |-> 0]

Built(kind, err, obj) == [kind |-> kind, err |-> err, obj |-> obj]

RotaryPositionalEmbedding_new_unchecked(rope_config) ==
    Built("Ok", "", [dim |-> rope_config.dim, max_seq_len |-> rope_config.max_seq_len])

\* rope.rs lines 62-93
RotaryPositionalEmbedding_new(rope_config) ==
    IF rope_config.dim % 2 # 0
    THEN Built("Err", InvalidConfig, NoRope)
    ELSE Built("Ok", "", [dim |-> rope_config.dim, max_seq_len |-> rope_config.max_seq_len])

cached_angle_from_one(p) == p + 1

\* rope.rs lines 82-90: t = arange(0..max_seq_len), freqs = t * inv_freq: row p of cos_cached
\* and sin_cached holds the cosines and sines of the angles p * inv_freq.  The row is named
\* by the factor p of its angles; row 0 is cos = 1, sin = 0
cached_angle(p) == p

\* rope.rs lines 166-167: x1 * cos - x2 * sin and x1 * sin + x2 * cos.  A position of a
\* tensor is the sequence of the nonzero angles it was rotated by: with cos = 1 and sin = 0
\* the two halves come out as x1 and x2
rotate(x, angle) == IF angle = 0 THEN x ELSE Append(x, angle)

\* the outcome of a tensor expression: a tensor, or the panic of a failed shape or index check
Fine(t) == [panic |-> FALSE, t |-> t]
Panics  == [panic |-> TRUE,  t |-> NoTensor]

\* rope.rs lines 140-172: x is sliced into [0, dim/2) and [dim/2, dim) on its last axis,
\* both halves are multiplied by the [1, 1, len(positions), dim/2] tables and concatenated.
\* A slice past the last axis and tables that do not broadcast against x are panics of the
\* tensor library; a last axis wider than dim is cut to dim.
apply_rotary_emb_to_tensor(rope, x, positions) ==
    LET n  == Len(x.seq)
        np == Len(positions)
    IN  IF x.d < rope.dim THEN Panics
        ELSE IF np # n /\ np # 1 /\ n # 1 THEN Panics
        ELSE Fine([b   |-> x.b,
                   h   |-> x.h,
                   d   |-> rope.dim,
                   seq |-> IF np = n
                           THEN [i \in 1 .. n |-> rotate(x.seq[i], cached_angle(positions[i]))]
                           ELSE IF np = 1
                           THEN [i \in 1 .. n |-> rotate(x.seq[i], cached_angle(positions[1]))]
                           ELSE [i \in 1 .. np |-> rotate(x.seq[1], cached_angle(positions[i]))]])

\* rope.rs lines 106-129: select of the table rows at positions (a row past the table is an
\* index panic), then the rotation of q and of k
rope_forward(rope, q_states, k_states, positions) ==
    IF \E i \in 1 .. Len(positions) : positions[i] >= rope.max_seq_len
    THEN [panic |-> TRUE, q |-> NoTensor, k |-> NoTensor]
    ELSE LET q_embed == apply_rotary_emb_to_tensor(rope, q_states, positions)
             k_embed == apply_rotary_emb_to_tensor(rope, k_states, positions)
         IN  IF q_embed.panic \/ k_embed.panic
             THEN [panic |-> TRUE, q |-> NoTensor, k |-> NoTensor]
             ELSE [panic |-> FALSE, q |-> q_embed.t, k |-> k_embed.t]

(***************************************************************************)
(* GemmaAttentionConfig::init and GemmaAttention::forward (attention.rs).  *)
(***************************************************************************)
NoLayer == [num_attention_heads |-> 0, num_key_value_heads |-> 0, head_dim |-> 0,
            num_kv_groups |-> 0, use_qk_norm |-> FALSE, hidden_size |-> 0, rope |-> NoRope]

\* attention.rs lines 59-103.  The RoPE is built first (line 80); the quotient of line 82
\* is taken before the remainder is tested at line 83, and usize division by zero panics.
GemmaAttentionConfig_init(cfg) ==
    LET rope_built == RotaryPositionalEmbedding_new(cfg.rope_config)
    IN  IF rope_built.kind = "Err" THEN Built("Err", rope_built.err, NoLayer)
        ELSE IF cfg.num_key_value_heads = 0 THEN Built("Panic", "", NoLayer)
        ELSE LET num_kv_groups == cfg.num_attention_heads \div cfg.num_key_value_heads
             IN  IF cfg.num_attention_heads % cfg.num_key_value_heads # 0
                 THEN Built("Err", InvalidConfig, NoLayer)
                 ELSE Built("Ok", "",
                            [num_attention_heads |-> cfg.num_attention_heads,
                             num_key_value_heads |-> cfg.num_key_value_heads,
                             head_dim            |-> cfg.head_dim,
                             num_kv_groups       |-> num_kv_groups,
                             use_qk_norm         |-> cfg.use_qk_norm,
                             hidden_size         |-> cfg.hidden_size,
                             rope                |-> rope_built.obj])

\* Option<MhaCache>
None == [some |-> FALSE, key |-> NoTensor, value |-> NoTensor]
Some(k, v) == [some |-> TRUE, key |-> k, value |-> v]

\* x.repeat(1, times): the head axis tiled times times, block after block
Repeat(x, times) == [x EXCEPT !.h = x.h * times]

InterleavedHeads(kv_heads, times) == [h \in 0 .. kv_heads * times - 1 |-> h \div times]

\* the kv head each head of a key/value tensor tiled times times holds
TiledHeads(kv_heads, times) == [h \in 0 .. kv_heads * times - 1 |-> h % kv_heads]

\* two head axes a batched matmul accepts: equal, or one of them 1
Broadcasts(h1, h2) == h1 = h2 \/ h1 = 1 \/ h2 = 1

BroadcastOf(h1, h2) == IF h1 = 1 THEN h2 ELSE h1

NoForward == [kind |-> "None", err |-> "", out |-> <<0, 0, 0>>, scores |-> <<0, 0, 0, 0>>,
              kv_seq_len |-> 0, scale |-> "", masked |-> FALSE, heads |-> <<>>,
              cache |-> None]

Failed(kind, err) == [NoForward EXCEPT !.kind = kind, !.err = err]

repeat_by_attention_heads(layer, x) ==
    IF layer.num_attention_heads > 1 THEN Repeat(x, layer.num_attention_heads) ELSE x

\* attention.rs lines 211-214: key and value are repeated only when num_kv_groups > 1
repeat_kv(layer, x) ==
    IF layer.num_kv_groups > 1 THEN Repeat(x, layer.num_kv_groups) ELSE x

scale_factor_qk_norm(layer) ==
    IF layer.use_qk_norm THEN "sqrt(sum(q^2) * sum(k^2))" ELSE "sqrt(head_dim)"

\* attention.rs lines 223-238: what the scores are divided by; both branches divide by
\* sqrt(head_dim)
scale_factor(layer) ==
    IF layer.use_qk_norm THEN "sqrt(head_dim)" ELSE "sqrt(head_dim)"

o_proj_forward_square(layer, x_shape) ==
    <<x_shape[1], x_shape[2], layer.num_attention_heads * layer.head_dim>>

\* attention.rs lines 76-78 and 266: o_proj maps the last axis to hidden_size
o_proj_forward(layer, x_shape) == <<x_shape[1], x_shape[2], layer.hidden_size>>

\* attention.rs lines 216-268: scores, scaling, mask, softmax, weighted sum, output projection
attend(layer, batch_size, q_seq_len, attention_mask, query_states, key_states, value_states, updated_kv_cache) ==
    LET kv_seq_len == Len(key_states.seq)
        k_rep == repeat_kv(layer, key_states)
        v_rep == repeat_kv(layer, value_states)
        tiles == k_rep.h \div key_states.h
        score_heads == BroadcastOf(query_states.h, k_rep.h)
        out_heads   == BroadcastOf(score_heads, v_rep.h)
    IN  \* line 220: Q * K^T
        IF query_states.d # k_rep.d \/ query_states.b # k_rep.b
           \/ ~Broadcasts(query_states.h, k_rep.h)
        THEN Failed("Panic", "")
        \* line 258: weights * V
        ELSE IF kv_seq_len # Len(v_rep.seq) \/ query_states.b # v_rep.b
                \/ ~Broadcasts(score_heads, v_rep.h)
        THEN Failed("Panic", "")
        \* lines 261-263: reshape to [batch_size, q_seq_len, num_attention_heads * head_dim]
        ELSE IF out_heads * Len(query_states.seq) * v_rep.d
                # q_seq_len * layer.num_attention_heads * layer.head_dim
        THEN Failed("Panic", "")
        ELSE [kind       |-> "Ok",
              err        |-> "",
              out        |-> o_proj_forward(layer,
                                <<batch_size, q_seq_len,
                                  layer.num_attention_heads * layer.head_dim>>),
              scores     |-> <<batch_size, score_heads, Len(query_states.seq), kv_seq_len>>,
              kv_seq_len |-> kv_seq_len,
              scale      |-> scale_factor(layer),
              \* lines 242-248: a mask of shape [batch, 1, q_seq_len, kv_seq_len] is added
              masked     |-> attention_mask,
              heads      |-> TiledHeads(key_states.h, tiles),
              cache      |-> updated_kv_cache]

\* one position of a projected tensor, not rotated yet
Fresh(n) == [i \in 1 .. n |-> <<>>]

forward_drops_cache(layer, batch_size, q_seq_len, positions, attention_mask, kv_cache) ==
    LET query_states == [b |-> batch_size, h |-> layer.num_attention_heads,
                         d |-> layer.head_dim, seq |-> Fresh(q_seq_len)]
        key_states   == [b |-> batch_size, h |-> layer.num_key_value_heads,
                         d |-> layer.head_dim, seq |-> Fresh(q_seq_len)]
        roped == rope_forward(layer.rope, query_states, key_states, positions)
    IN  IF roped.panic THEN Failed("Panic", "")
        ELSE attend(layer, batch_size, q_seq_len, attention_mask, roped.q, roped.k,
                    key_states, Some(roped.k, key_states))

forward_caches_before_rotation(layer, batch_size, q_seq_len, positions, attention_mask, kv_cache) ==
    LET query_states == [b |-> batch_size, h |-> layer.num_attention_heads,
                         d |-> layer.head_dim, seq |-> Fresh(q_seq_len)]
        key_states   == [b |-> batch_size, h |-> layer.num_key_value_heads,
                         d |-> layer.head_dim, seq |-> Fresh(q_seq_len)]
        value_states == key_states
        old          == IF kv_cache.some THEN kv_cache
                        ELSE Some([key_states EXCEPT !.seq = <<>>],
                                  [value_states EXCEPT !.seq = <<>>])
        k_cat == Cat(old.key, key_states)
        v_cat == Cat(old.value, value_states)
        kv_positions == [i \in 1 .. Len(k_cat.t.seq) |->
                            positions[1] - Len(old.key.seq) + i - 1]
        roped == rope_forward(layer.rope, query_states, key_states, positions)
        roped_kv == apply_rotary_emb_to_tensor(layer.rope, k_cat.t, kv_positions)
    IN  IF ~k_cat.ok \/ ~v_cat.ok THEN Failed("Err", BurnTensor)
        ELSE IF roped.panic \/ roped_kv.panic \/ positions[1] < Len(old.key.seq)
        THEN Failed("Panic", "")
        ELSE attend(layer, batch_size, q_seq_len, attention_mask, roped.q, roped_kv.t,
                    v_cat.t, Some(k_cat.t, v_cat.t))

forward_caches_expanded(layer, batch_size, q_seq_len, positions, attention_mask, kv_cache) ==
    LET query_states == [b |-> batch_size, h |-> layer.num_attention_heads,
                         d |-> layer.head_dim, seq |-> Fresh(q_seq_len)]
        key_states   == [b |-> batch_size, h |-> layer.num_key_value_heads,
                         d |-> layer.head_dim, seq |-> Fresh(q_seq_len)]
        value_states == key_states
        roped == rope_forward(layer.rope, query_states, key_states, positions)
    IN  IF roped.panic THEN Failed("Panic", "")
        ELSE IF kv_cache.some
        THEN LET k_cat == Cat(kv_cache.key, roped.k)
                 v_cat == Cat(kv_cache.value, value_states)
             IN  IF ~k_cat.ok THEN Failed("Err", BurnTensor)
                 ELSE IF ~v_cat.ok THEN Failed("Err", BurnTensor)
                 ELSE attend(layer, batch_size, q_seq_len, attention_mask, roped.q,
                             k_cat.t, v_cat.t,
                             Some(repeat_kv(layer, k_cat.t), repeat_kv(layer, v_cat.t)))
        ELSE attend(layer, batch_size, q_seq_len, attention_mask, roped.q, roped.k,
                    value_states,
                    Some(repeat_kv(layer, roped.k), repeat_kv(layer, value_states)))

\* attention.rs lines 164-269
forward(layer, batch_size, q_seq_len, positions, attention_mask, kv_cache) ==
    LET \* lines 174-188: projections, reshape and swap_dims to [batch, heads, seq, head_dim]
        query_states == [b |-> batch_size, h |-> layer.num_attention_heads,
                         d |-> layer.head_dim, seq |-> Fresh(q_seq_len)]
        key_states   == [b |-> batch_size, h |-> layer.num_key_value_heads,
                         d |-> layer.head_dim, seq |-> Fresh(q_seq_len)]
        value_states == key_states
        \* line 192
        roped == rope_forward(layer.rope, query_states, key_states, positions)
    IN  IF roped.panic THEN Failed("Panic", "")
        ELSE IF kv_cache.some
        THEN \* lines 197-203
             LET k_cat == Cat(kv_cache.key, roped.k)
                 v_cat == Cat(kv_cache.value, value_states)
             IN  IF ~k_cat.ok THEN Failed("Err", BurnTensor)
                 ELSE IF ~v_cat.ok THEN Failed("Err", BurnTensor)
                 ELSE attend(layer, batch_size, q_seq_len, attention_mask, roped.q,
                             k_cat.t, v_cat.t, Some(k_cat.t, v_cat.t))
        ELSE \* lines 204-207
             attend(layer, batch_size, q_seq_len, attention_mask, roped.q, roped.k,
                    value_states, Some(roped.k, value_states))

\* the heads and sizes the configurations of the model are drawn from; base_theta,
\* attention_dropout_prob and use_bias change no shape and no error and are left out
AttnHeadCounts == {0, 2, 6, 8}
KvHeadCounts   == {0, 2, 3}
RopeDims       == {2, 4, 5}
RopeTableSizes == {2, MaxLen + 1}
HiddenSizes    == {6}
FwdSeqLens     == {1, 2, 3}

AttnConfigs ==
    [hidden_size         : HiddenSizes,
     num_attention_heads : AttnHeadCounts,
     num_key_value_heads : KvHeadCounts,
     head_dim            : HeadDims,
     rope_config         : [dim : RopeDims, max_seq_len : RopeTableSizes],
     use_qk_norm         : BOOLEAN]

NotBuilt(obj) == Built("None", "", obj)

NoRopeCall == [made |-> FALSE, q |-> NoTensor, k |-> NoTensor, positions |-> <<>>,
               res |-> [panic |-> FALSE, q |-> NoTensor, k |-> NoTensor]]

NoCall == [b |-> 0, n |-> 0, np |-> 0, mask |-> FALSE, cached |-> FALSE, len |-> 0,
           kv_cache |-> None, res |-> NoForward]

(***************************************************************************)
(* model_loader/src/validation.rs: ModelConfigValidator.                   *)
(***************************************************************************)
\* types.rs lines 92-97: the model types a core configuration can carry
ModelTypes == {"Gemma", "Llama"}

\* CoreGemmaModelConfig (types.rs lines 58-76), the fields validate_core_config reads;
\* rms_norm_eps by its sign, quantization_config by whether it is Some
CoreConfigs ==
    [vocab_size          : {0, 1},
     hidden_size         : {0, 4, 6},
     num_attention_heads : {0, 2, 3},
     num_key_value_heads : {0, 1, 2},
     rms_norm_eps        : {0, 1},
     head_dim            : {0, 2, 3},
     model_type          : ModelTypes,
     quantization_config : BOOLEAN]

Checked(kind, err) == [kind |-> kind, err |-> err]

NoValidation == [made |-> FALSE, config |-> CHOOSE c \in CoreConfigs : TRUE,
                 res |-> Checked("None", "")]

\* validation.rs lines 121-173: the messages pushed to errors, one name per check; the
\* operator is applied to configurations whose head counts are nonzero
validation_errors(c) ==
    { e \in {"vocab_size", "hidden_size", "hidden%heads", "heads%kv_heads", "rms_norm_eps",
              "head_dim", "gemma_head_dim", "quantization_config"} :
        \/ e = "vocab_size" /\ c.vocab_size = 0
        \/ e = "hidden_size" /\ c.hidden_size = 0
        \/ e = "hidden%heads" /\ c.hidden_size % c.num_attention_heads # 0
        \/ e = "heads%kv_heads" /\ c.num_attention_heads % c.num_key_value_heads # 0
        \/ e = "rms_norm_eps" /\ c.rms_norm_eps <= 0
        \/ e = "head_dim" /\ c.head_dim = 0
        \/ e = "gemma_head_dim" /\ c.model_type = "Gemma"
                                 /\ c.head_dim # c.hidden_size \div c.num_attention_heads
        \/ e = "quantization_config" /\ c.quantization_config }

\* validation.rs lines 116-184: the checks of lines 127 and 130 only push a message, so
\* with num_attention_heads = 0 the % of line 135, and with num_key_value_heads = 0 the %
\* of line 141, is a remainder by zero: a panic in every build profile
validate_core_config(core_config) ==
    IF core_config.num_attention_heads = 0 \/ core_config.num_key_value_heads = 0
    THEN Checked("Panic", "")
    ELSE IF validation_errors(core_config) # {}
         THEN Checked("Err", InvalidConfig)
         ELSE Checked("Ok", "")

(***************************************************************************)
(* utils_crate/src/path.rs: sanitize_path_component.  A string is the      *)
(* sequence of the code points of its characters.                          *)
(***************************************************************************)
\* the longest component the model sanitizes
MaxChars == 3

\* the characters components are made of: a z A Z 0 9 - _ . and, of the others, space,
\* slash, newline, the neighbours @ [ ` { of the letter ranges, and the Cyrillic letter Te
Chars == {97, 122, 65, 90, 48, 57, 45, 95, 46, 32, 47, 10, 64, 91, 96, 123, 1058}

Components == UNION { [1 .. n -> Chars] : n \in 0 .. MaxChars }

kept_if_alphanumeric(c) ==
    \/ c \in 97 .. 122 \/ c \in 65 .. 90 \/ c \in 48 .. 57 \/ c \in 1024 .. 1279
    \/ c = 45 \/ c = 95 \/ c = 46

\* path.rs line 97: 'a'..='z' | 'A'..='Z' | '0'..='9' | '-' | '_' | '.'
kept_by_match(c) ==
    \/ c \in 97 .. 122 \/ c \in 65 .. 90 \/ c \in 48 .. 57
    \/ c = 45 \/ c = 95 \/ c = 46

\* path.rs lines 93-101: chars().map(..).collect(); line 98 maps every other char to '_'
sanitize_path_component(component) ==
    [i \in 1 .. Len(component) |->
        IF kept_by_match(component[i]) THEN component[i] ELSE 95]

NoSanitize == [made |-> FALSE, component |-> <<>>, res |-> <<>>]

\* no validator or path utility call is in play
UtilIdle ==
    /\ vcall = NoValidation
    /\ scall = NoSanitize

\* the most KVCache structs of one cache the model follows: the constructed one and clones
MaxHandles == 3

\* the addresses of the Arc allocations: two per struct that shares none
Addresses == 1 .. 2 * MaxHandles

\* an address nothing was allocated at
Unallocated == [live |-> FALSE, data |-> [key |-> NoTensor, value |-> NoTensor], len |-> 0]

\* Arc::new(Mutex::new(mha_cache)) and Arc::new(Mutex::new(0)) (kv_cache.rs lines 83, 85)
ArcOfCache(mha_cache) == [live |-> TRUE, data |-> mha_cache, len |-> 0]
ArcOfLen(n) == [live |-> TRUE, data |-> [key |-> NoTensor, value |-> NoTensor], len |-> n]

NoHandleCall == [made |-> FALSE, h |-> 0, op |-> "none", res |-> NoResult]

\* no clone of a cache is in play
CloneIdle ==
    /\ arcs = [a \in Addresses |-> Unallocated]
    /\ handles = <<>>
    /\ hcall = NoHandleCall

\* the threads that may share a cache
Threads == {1, 2}

Free == 0

NoSeen == [cache_data |-> [key |-> NoTensor, value |-> NoTensor], current_len |-> 0]

\* a thread that is in no call, after calls calls; op is the operation of its last call
Idle(calls) == [pc |-> "idle", op |-> "none", key |-> NoTensor, value |-> NoTensor,
                updated_k |-> NoTensor, updated_v |-> NoTensor,
                cloned |-> [key |-> NoTensor, value |-> NoTensor],
                seen |-> NoSeen, res |-> NoResult, calls |-> calls]

AllGuards == {"cache_data", "current_len"}

\* one owner uses the cache: no thread is in a call
ConcIdle ==
    /\ threads = [t \in Threads |-> Idle(0)]
    /\ guards = [l \in AllGuards |-> Free]

\* no attention layer is in play
AttnIdle ==
    /\ config = CHOOSE c \in AttnConfigs : TRUE
    /\ rotary = NotBuilt(NoRope)
    /\ attn = NotBuilt(NoLayer)
    /\ held = None
    /\ fwd = NoCall
    /\ rcall = NoRopeCall

(***************************************************************************)
(* The cache as a state machine: one owner calling its operations.         *)
(***************************************************************************)
Self == [cache_data  |-> cache_data,
         max_len     |-> max_len,
         current_len |-> current_len,
         poisoned    |-> poisoned]

Store(self) ==
    /\ cache_data'  = self.cache_data
    /\ current_len' = self.current_len
    /\ max_len'     = self.max_len
    /\ poisoned'    = self.poisoned

Call(op, k, v, out) == [op |-> op, key |-> k, value |-> v, pre |-> Self, res |-> out.res]

Shapes == Batches \X Heads \X HeadDims

\* the shapes that differ from s in at most one of batch, heads, head_dim
Near(s) == { t \in Shapes : Cardinality({ i \in 1 .. 3 : t[i] # s[i] }) <= 1 }

ShapeOf(t) == <<t.b, t.h, t.d>>

\* the <<key shape, value shape>> of the appends of the model: the cache's own shape, or one
\* axis of the key off the cache's, or one axis of the value off the key's
NewShapes(s) ==
    { <<ks, ks>> : ks \in Near(s) } \cup { <<s, vs>> : vs \in Near(s) }

Tensor(s, seq) == [b |-> s[1], h |-> s[2], d |-> s[3], seq |-> seq]

\* the chunks a caller appends: one tag per call, n positions
NewChunks == { Chunk(tag, n) : tag \in Tags, n \in NewSeqLens }

\* a single-token append whose shapes agree with the cache's
SingleToken(k, v) ==
    /\ Len(k.seq) = 1 /\ Len(v.seq) = 1
    /\ ShapeOf(k) = ShapeOf(cache_data.key) /\ ShapeOf(v) = ShapeOf(k)

InitCache ==
    /\ UtilIdle
    /\ CloneIdle
    /\ \E s \in CacheShapes, m \in 0 .. MaxLen :
           LET c == KVCache_new(s[1], s[2], m, s[3])
           IN  /\ ctor = [batch_size |-> s[1], num_heads |-> s[2], max_len |-> m,
                          head_dim |-> s[3]]
               /\ cache_data = c.cache_data
               /\ current_len = c.current_len
               /\ max_len = c.max_len
               /\ poisoned = c.poisoned
               /\ last = [op |-> "new", key |-> NoTensor, value |-> NoTensor,
                          pre |-> c, res |-> NoResult]
               /\ fresh = [live |-> FALSE, self |-> c, res |-> NoResult, used |-> FALSE]
               /\ singles = 0
               /\ AttnIdle
               /\ ConcIdle

UpdateAndGet(k, v) ==
    /\ singles <= MaxLen + 1
    /\ \E out \in {update_and_get(Self, k, v)} :
           /\ Store(out.self)
           /\ last' = Call("update_and_get", k, v, out)
           /\ fresh' = IF fresh.live
                       THEN LET f == update_and_get(fresh.self, k, v)
                            IN  [fresh EXCEPT !.self = f.self, !.res = f.res]
                       ELSE fresh
           /\ singles' = IF singles >= 0 /\ SingleToken(k, v) THEN singles + 1 ELSE -1
    /\ UNCHANGED <<utilVars, cloneVars, ctor, attnVars, concVars>>

GetCurrentValues ==
    /\ \E out \in {get_current_values(Self)} :
           Store(out.self) /\ last' = Call("get_current_values", NoTensor, NoTensor, out)
    /\ UNCHANGED <<utilVars, cloneVars, ctor, fresh, singles, attnVars, concVars>>

CurrentSeqLength ==
    /\ \E out \in {current_seq_length(Self)} :
           Store(out.self) /\ last' = Call("current_seq_length", NoTensor, NoTensor, out)
    /\ UNCHANGED <<utilVars, cloneVars, ctor, fresh, singles, attnVars, concVars>>

MaxSequenceLength ==
    /\ \E out \in {max_sequence_length(Self)} :
           Store(out.self) /\ last' = Call("max_sequence_length", NoTensor, NoTensor, out)
    /\ UNCHANGED <<utilVars, cloneVars, ctor, fresh, singles, attnVars, concVars>>

Reset ==
    /\ \E out \in {reset(Self)} :
           /\ Store(out.self)
           /\ last' = Call("reset", NoTensor, NoTensor, out)
           /\ fresh' = IF out.res.kind = "Ok"
                       THEN [live |-> TRUE,
                             self |-> KVCache_new(ctor.batch_size, ctor.num_heads,
                                                  ctor.max_len, ctor.head_dim),
                             res  |-> NoResult,
                             used |-> current_len > 0]
                       ELSE fresh
           /\ singles' = IF out.res.kind = "Ok" THEN 0 ELSE singles
    /\ UNCHANGED <<utilVars, cloneVars, ctor, attnVars, concVars>>

\* a thread panics while it holds the locks named in locks: std's Mutex marks them poisoned
PanicHolding(locks) ==
    /\ poisoned' = [l \in {"cache_data", "current_len"} |-> poisoned[l] \/ l \in locks]
    /\ poisoned' # poisoned
    /\ last' = [op |-> "panic", key |-> NoTensor, value |-> NoTensor,
                pre |-> Self, res |-> NoResult]
    /\ UNCHANGED <<utilVars, cloneVars, cache_data, current_len, max_len, ctor, fresh, singles, attnVars, concVars>>

\* the locks a call of this file holds together: get_current_values holds cache_data,
\* update_and_get and reset hold both
HeldSets == { {"cache_data"}, {"cache_data", "current_len"} }

NextCache ==
    \/ \E in \in NewShapes(ShapeOf(cache_data.key)), chunk \in NewChunks :
          UpdateAndGet(Tensor(in[1], chunk), Tensor(in[2], chunk))
    \/ GetCurrentValues
    \/ CurrentSeqLength
    \/ MaxSequenceLength
    \/ Reset

\* the chunks appended where locks may be poisoned: what a chunk holds plays no part there
PoisonChunks == { Chunk("a", n) : n \in NewSeqLens }

NextCachePoison ==
    \/ \E in \in NewShapes(ShapeOf(cache_data.key)), chunk \in PoisonChunks :
          UpdateAndGet(Tensor(in[1], chunk), Tensor(in[2], chunk))
    \/ GetCurrentValues
    \/ CurrentSeqLength
    \/ MaxSequenceLength
    \/ Reset
    \/ \E locks \in HeldSets : PanicHolding(locks)

SpecCache == InitCache /\ [][NextCache]_vars

SpecCachePoison == InitCache /\ [][NextCachePoison]_vars

(***************************************************************************)
(* Claims about the KV cache.                                              *)
(***************************************************************************)
LastIsUpdate == last.op = "update_and_get"

\* the new key and value have the batch, heads and head_dim of the cache's key
LastCompatible ==
    /\ ShapeOf(last.key) = ShapeOf(last.pre.cache_data.key)
    /\ ShapeOf(last.value) = ShapeOf(last.pre.cache_data.key)

LastFits == last.pre.current_len + Len(last.key.seq) <= last.pre.max_len

\* C1: with shape-compatible inputs update_and_get succeeds exactly when
\* current_len + new_seq_len <= max_len and fails with PositionOutOfBounds otherwise;
\* of a run of single-token appends on a cache of max_len N the first N succeed
\* and every later one returns PositionOutOfBounds.
C1_CapacityExact ==
    /\ (LastIsUpdate /\ LastCompatible) =>
          /\ (last.res.kind = "Ok") <=> LastFits
          /\ (last.res.kind # "Ok") => last.res = Err(PositionOutOfBounds)
    /\ (LastIsUpdate /\ singles > 0) =>
          IF singles <= max_len
          THEN last.res.kind = "Ok" /\ current_len = singles
          ELSE last.res = Err(PositionOutOfBounds) /\ current_len = max_len

\* the (N+1)-th single-token append on a cache of the largest max_len has just failed
C1_Witness ==
    /\ LastIsUpdate /\ max_len = MaxLen /\ singles = max_len + 1
    /\ last.res.err = PositionOutOfBounds

\* C2 as stated: in every cache state a new key/value whose batch, heads or head_dim
\* differs from the cache's returns IncompatibleShape.
C2_Original ==
    (LastIsUpdate /\ ~LastCompatible) => last.res = Err(IncompatibleShape)

\* C2 amended: a new key/value whose batch, heads or head_dim differs from the cache's
\* returns IncompatibleShape when current_len + new_seq_len <= max_len, and
\* PositionOutOfBounds (the capacity check comes first) when it is not; a differing
\* sequence length alone is never a shape error.
C2_ShapeErrorWithinCapacity ==
    /\ (LastIsUpdate /\ ~LastCompatible) =>
          last.res = IF LastFits THEN Err(IncompatibleShape) ELSE Err(PositionOutOfBounds)
    /\ (LastIsUpdate /\ LastCompatible) => last.res.err # IncompatibleShape

\* a mismatched zero-length chunk offered to a full, non-empty cache is a shape error
C2_Witness ==
    /\ LastIsUpdate /\ ~LastCompatible
    /\ last.pre.current_len = max_len /\ max_len > 0
    /\ last.res = Err(IncompatibleShape)

\* C3: after reset() current_seq_length() is 0, batch/heads/head_dim and max_len are
\* those of construction, and the appends made since give the results, and leave the
\* state, they give on a cache freshly constructed with the same arguments.
C3_ResetIsFresh ==
    fresh.live =>
        /\ cache_data = fresh.self.cache_data
        /\ current_len = fresh.self.current_len
        /\ max_len = fresh.self.max_len
        /\ LastIsUpdate => last.res = fresh.res
        /\ last.op = "reset" =>
              /\ current_seq_length(Self).res = Ok(NoTensor, NoTensor, 0)
              /\ ShapeOf(cache_data.key) = <<ctor.batch_size, ctor.num_heads, ctor.head_dim>>
              /\ ShapeOf(cache_data.value) = ShapeOf(cache_data.key)
              /\ max_len = ctor.max_len

\* a non-empty cache was reset and has since been filled again by successful appends
C3_Witness ==
    /\ fresh.live /\ fresh.used
    /\ LastIsUpdate /\ last.res.kind = "Ok" /\ current_len = max_len /\ max_len >= 2

ReadOps == {"get_current_values", "current_seq_length", "max_sequence_length"}

\* C4: a successful update_and_get adds exactly new_seq_len to current_len, a failed one
\* and every read leave it unchanged, no operation but reset() lowers it, and reset()
\* sets it to 0.
C4_LenMonotone ==
    /\ (LastIsUpdate /\ last.res.kind = "Ok") =>
          current_len = last.pre.current_len + Len(last.key.seq)
    /\ (LastIsUpdate /\ last.res.kind # "Ok") => current_len = last.pre.current_len
    /\ last.op \in ReadOps => current_len = last.pre.current_len
    /\ last.op # "reset" => current_len >= last.pre.current_len
    /\ (last.op = "reset" /\ last.res.kind = "Ok") => current_len = 0
    /\ last.op = "new" => current_len = 0

\* a two-token chunk has just been appended to a non-empty cache
C4_Witness ==
    /\ LastIsUpdate /\ last.res.kind = "Ok"
    /\ last.pre.current_len = 1 /\ Len(last.key.seq) = 2 /\ current_len = 3

\* C5: when update_and_get returns an error, current_len and the stored key and value
\* are what they were before the call.
C5_ErrorLeavesState ==
    (LastIsUpdate /\ last.res.kind = "Err") =>
        /\ current_len = last.pre.current_len
        /\ cache_data = last.pre.cache_data
        /\ max_len = last.pre.max_len

\* an append to a non-empty cache has just failed on a poisoned lock
C5_Witness ==
    /\ LastIsUpdate /\ last.res = Err(LockFailed)
    /\ current_len > 0 /\ Len(last.key.seq) > 0

\* every error update_and_get returns before it touches the tensors is reached
C5_WitnessShape ==
    LastIsUpdate /\ last.res = Err(IncompatibleShape) /\ current_len > 0

\* C15: get_current_values, current_seq_length and max_sequence_length leave current_len
\* and the stored key and value tensors unchanged, and max_len is never changed by any
\* operation after construction.
C15_ReadsDoNotMutate ==
    /\ last.op \in ReadOps =>
           /\ current_len = last.pre.current_len
           /\ cache_data = last.pre.cache_data
    /\ max_len = last.pre.max_len
    /\ max_len = ctor.max_len

\* a cache of two positions has just been read
C15_Witness ==
    /\ last.op = "get_current_values" /\ last.res.kind = "Ok"
    /\ Len(last.res.key.seq) = 2 /\ Len(cache_data.key.seq) = 2 /\ current_len = 2

\* the locks the last call on the cache needs
LocksNeeded ==
    CASE last.op \in {"update_and_get", "reset"} -> {"cache_data", "current_len"}
      [] last.op = "get_current_values"           -> {"cache_data"}
      [] last.op = "current_seq_length"           -> {"current_len"}
      [] OTHER                                    -> {}

\* C13: once a lock of the cache is poisoned, every later update_and_get,
\* get_current_values, current_seq_length and reset that needs that lock returns LockFailed
\* and does not change the cache state; max_sequence_length still returns max_len.
C13_PoisonedLockFails ==
    /\ (\E l \in LocksNeeded : last.pre.poisoned[l]) =>
           /\ last.res = Err(LockFailed)
           /\ Self = last.pre
    /\ last.op = "max_sequence_length" =>
           /\ last.res = Ok(NoTensor, NoTensor, last.pre.max_len)
           /\ Self = last.pre

\* the length of a non-empty cache was asked for after the counter's lock was poisoned
C13_Witness ==
    /\ last.op = "current_seq_length" /\ last.pre.poisoned.current_len
    /\ last.res = Err(LockFailed)
    /\ current_len > 0

(***************************************************************************)
(* The attention layer as a state machine: a configuration, its            *)
(* construction, and a caller who runs forward calls and carries the       *)
(* returned cache into the next call.                                      *)
(***************************************************************************)
\* the longest cache the model follows
MaxKvLen == MaxLen + 1

\* the cache of the model when no cache is in play
CacheIdle ==
    LET c == KVCache_new(1, 1, MaxLen, 2)
    IN  /\ ctor = [batch_size |-> 1, num_heads |-> 1, max_len |-> MaxLen, head_dim |-> 2]
        /\ cache_data = c.cache_data
        /\ current_len = c.current_len
        /\ max_len = c.max_len
        /\ poisoned = c.poisoned
        /\ last = [op |-> "new", key |-> NoTensor, value |-> NoTensor,
                   pre |-> c, res |-> NoResult]
        /\ fresh = [live |-> FALSE, self |-> c, res |-> NoResult, used |-> FALSE]
        /\ singles = 0
        /\ ConcIdle

InitAttn ==
    /\ UtilIdle
    /\ CloneIdle
    /\ config \in AttnConfigs
    /\ rotary = NotBuilt(NoRope)
    /\ attn = NotBuilt(NoLayer)
    /\ held = None
    /\ fwd = NoCall
    /\ rcall = NoRopeCall
    /\ CacheIdle

RopeNew ==
    /\ rotary.kind = "None"
    /\ rotary' = RotaryPositionalEmbedding_new(config.rope_config)
    /\ UNCHANGED <<utilVars, cloneVars, cacheVars, config, attn, held, fwd, rcall, concVars>>

\* config.init(); it builds a table of its own and shares no state with the standalone
\* table, which the model builds first
AttnInit ==
    /\ attn.kind = "None"
    /\ rotary.kind # "None"
    /\ attn' = GemmaAttentionConfig_init(config)
    /\ UNCHANGED <<utilVars, cloneVars, cacheVars, config, rotary, held, fwd, rcall, concVars>>

\* a forward call of n tokens on a batch of b, with or without the cache the caller holds;
\* the np positions continue the supplied cache (np is n, or 1, or one too many)
Forward(b, n, np, use_cache, mask) ==
    /\ attn.kind = "Ok" /\ attn.obj.num_attention_heads > 0
    /\ use_cache => held.some
    /\ LET len == IF use_cache THEN Len(held.key.seq) ELSE 0
           positions == [i \in 1 .. np |-> len + i - 1]
       IN  /\ len + n <= MaxKvLen
           /\ \E res \in {forward(attn.obj, b, n, positions, mask,
                                  IF use_cache THEN held ELSE None)} :
                 /\ fwd' = [b |-> b, n |-> n, np |-> np, mask |-> mask, cached |-> use_cache,
                            len |-> len, kv_cache |-> IF use_cache THEN held ELSE None,
                            res |-> res]
                 /\ held' = IF res.kind = "Ok" THEN res.cache ELSE held
    /\ UNCHANGED <<utilVars, cloneVars, cacheVars, config, rotary, attn, rcall, concVars>>

NextAttn ==
    \/ RopeNew
    \/ AttnInit
    \/ \E b \in Batches, n \in FwdSeqLens, use_cache \in BOOLEAN, mask \in BOOLEAN :
          \E np \in {n, 1, n + 1} : Forward(b, n, np, use_cache, mask)

SpecAttn == InitAttn /\ [][NextAttn]_vars

(***************************************************************************)
(* Claims about the construction of the attention layer and of the RoPE.   *)
(***************************************************************************)
RopeDimEven == config.rope_config.dim % 2 = 0

\* num_attention_heads is a multiple of num_key_value_heads: the remainder exists and is 0
HeadsDivide ==
    /\ config.num_key_value_heads # 0
    /\ config.num_attention_heads % config.num_key_value_heads = 0

\* C6: with a valid RoPE config, init succeeds exactly when
\* num_attention_heads % num_key_value_heads == 0, and then num_kv_groups is the quotient;
\* otherwise it returns InvalidConfig and no attention object.
C6_InitExactlyWhenDivisible ==
    (attn.kind # "None" /\ RopeDimEven) =>
        IF HeadsDivide
        THEN /\ attn.kind = "Ok"
             /\ attn.obj.num_kv_groups
                  = config.num_attention_heads \div config.num_key_value_heads
        ELSE attn = Built("Err", InvalidConfig, NoLayer)

\* C7: init returns Ok or Err(InvalidConfig) for every configuration, and never panics.
C7_InitNeverPanics ==
    /\ attn.kind \in {"None", "Ok", "Err"}
    /\ attn.kind = "Err" => attn.err = InvalidConfig

\* C8: RotaryPositionalEmbedding::new returns InvalidConfig exactly when dim is odd and
\* succeeds for every even dim; with an odd rope dim the attention layer's init returns
\* InvalidConfig as well, whatever the head counts.
C8_OddDimInvalid ==
    /\ rotary.kind # "None" =>
          IF RopeDimEven
          THEN rotary = Built("Ok", "", [dim |-> config.rope_config.dim,
                                         max_seq_len |-> config.rope_config.max_seq_len])
          ELSE rotary = Built("Err", InvalidConfig, NoRope)
    /\ (attn.kind # "None" /\ ~RopeDimEven) => attn = Built("Err", InvalidConfig, NoLayer)

\* dim = 5: the RoPE and the layer (even one with no kv heads) were both refused
C8_Witness ==
    /\ config.rope_config.dim = 5 /\ config.num_key_value_heads = 0
    /\ rotary = Built("Err", InvalidConfig, NoRope)
    /\ attn = Built("Err", InvalidConfig, NoLayer)

(***************************************************************************)
(* Claims about forward and the cache it returns.                          *)
(***************************************************************************)
\* C9: a successful forward of n tokens without a cache returns a cache of length n; with
\* a cache of length L it returns a cache of length L + n and its scores span all L + n
\* key positions.
C9_PrefillThenDecode ==
    fwd.res.kind = "Ok" =>
        /\ ~fwd.cached => fwd.len = 0
        /\ fwd.res.cache.some
        /\ Len(fwd.res.cache.key.seq) = fwd.len + fwd.n
        /\ Len(fwd.res.cache.value.seq) = fwd.len + fwd.n
        /\ fwd.res.kv_seq_len = fwd.len + fwd.n
        /\ fwd.res.scores[3] = fwd.n
        /\ fwd.res.scores[4] = fwd.len + fwd.n
        /\ held = fwd.res.cache

\* a one-token decode on the cache of a three-token prefill: keys of positions 0..3
C9_Witness ==
    /\ fwd.res.kind = "Ok" /\ fwd.cached /\ fwd.len = 3 /\ fwd.n = 1
    /\ fwd.res.scores[4] = 4
    /\ held.some /\ held.key.seq = << <<>>, <<1>>, <<2>>, <<3>> >>

\* C10: forward with a supplied cache fails with PositionOutOfBounds whenever the cached
\* length plus the new sequence length exceeds the cache's maximum length, and the cache
\* never grows past that maximum through forward calls.
C10_ForwardRespectsMaxLen ==
    /\ (fwd.cached /\ fwd.len + fwd.n > max_len) =>
          fwd.res = Failed("Err", PositionOutOfBounds)
    /\ held.some => Len(held.key.seq) <= max_len

\* the cache supplied to the last forward call does not have the batch, the kv heads and the
\* head_dim of the keys and values the layer projects
SuppliedCacheDisagrees ==
    /\ fwd.cached
    /\ \E t \in {fwd.kv_cache.key, fwd.kv_cache.value} :
           \/ t.b # fwd.b
           \/ t.h # attn.obj.num_key_value_heads
           \/ t.d # attn.obj.head_dim

\* C11: forward with a supplied cache whose stored batch, head count or head_dim disagrees
\* with the newly projected key/value returns IncompatibleShape: an error value, not a
\* panic and not another kind of error.
C11_ForeignCacheIncompatibleShape ==
    SuppliedCacheDisagrees => fwd.res = Failed("Err", IncompatibleShape)

(***************************************************************************)
(* Claims about the heads, the scaling and the output of forward.          *)
(***************************************************************************)
\* the positions of the last forward call
FwdPositions == [i \in 1 .. fwd.np |-> fwd.len + i - 1]

\* the last forward call is one the layer is meant for: a RoPE of dim head_dim, one position
\* per token and all of them in the table, a cache (if any) of the batch of the call
WellFormedCall ==
    /\ fwd.n > 0 /\ fwd.np = fwd.n
    /\ attn.obj.rope.dim = attn.obj.head_dim
    /\ fwd.len + fwd.n <= attn.obj.rope.max_seq_len
    /\ fwd.cached => fwd.kv_cache.key.b = fwd.b

\* C16: when num_kv_groups > 1, forward expands key/value heads by whole-block tiling: for
\* every query head h in [0, num_attention_heads), head h attends using kv head
\* h mod num_key_value_heads, and the expanded head axis has length num_attention_heads.
C16_WholeBlockTiling ==
    (fwd.n > 0 /\ attn.obj.num_kv_groups > 1) =>
        /\ WellFormedCall => fwd.res.kind = "Ok"
        /\ fwd.res.kind = "Ok" =>
              /\ DOMAIN fwd.res.heads = 0 .. attn.obj.num_attention_heads - 1
              /\ \A h \in DOMAIN fwd.res.heads :
                     fwd.res.heads[h] = h % attn.obj.num_key_value_heads
              /\ fwd.res.scores[2] = attn.obj.num_attention_heads

\* six query heads on three kv heads, decoding on a cache: head 4 uses kv head 1, where
\* contiguous grouping would use kv head 2
C16_Witness ==
    /\ fwd.res.kind = "Ok" /\ fwd.cached
    /\ attn.obj.num_attention_heads = 6 /\ attn.obj.num_key_value_heads = 3
    /\ fwd.res.heads[4] = 1 /\ 4 \div attn.obj.num_kv_groups = 2

\* C17: when num_attention_heads == num_key_value_heads, num_kv_groups == 1 and the
\* expansion leaves key/value unchanged: query head h attends with kv head h, as in
\* standard multi-head attention (and the call succeeds as it does there).
C17_EqualHeadsIsMha ==
    (attn.kind = "Ok" /\ attn.obj.num_attention_heads = attn.obj.num_key_value_heads) =>
        /\ attn.obj.num_kv_groups = 1
        /\ WellFormedCall => fwd.res.kind = "Ok"
        /\ fwd.res.kind = "Ok" =>
              /\ fwd.res.heads = [h \in 0 .. attn.obj.num_attention_heads - 1 |-> h]
              /\ fwd.res.scores[2] = attn.obj.num_key_value_heads
              /\ fwd.res.cache.key.h = attn.obj.num_attention_heads

\* two query heads on two kv heads, decoding on a cache
C17_Witness ==
    /\ fwd.res.kind = "Ok" /\ fwd.cached
    /\ attn.obj.num_attention_heads = 2 /\ attn.obj.num_key_value_heads = 2
    /\ fwd.res.heads = (0 :> 0 @@ 1 :> 1)

\* C19: for every successful forward call, with or without a cache and whatever the
\* accumulated cache length, the output's shape is [batch, seq, hidden_size] where batch
\* and seq are those of the input hidden_states of that call.
C19_OutputShape ==
    fwd.res.kind = "Ok" => fwd.res.out = <<fwd.b, fwd.n, config.hidden_size>>

\* two tokens of a batch of two on a cache of two positions
C19_Witness ==
    /\ fwd.res.kind = "Ok" /\ fwd.cached /\ fwd.len = 2
    /\ fwd.b = 2 /\ fwd.n = 2 /\ fwd.res.kv_seq_len = 4
    /\ fwd.res.out = <<2, 2, 6>>

\* C20: for identical weights and inputs, forward with use_qk_norm = true divides scores by
\* sqrt(head_dim) exactly as with use_qk_norm = false: both settings produce identical
\* scores, outputs and caches.
C20_QkNormSameScaling ==
    fwd.n > 0 =>
        /\ fwd.res = forward([attn.obj EXCEPT !.use_qk_norm = ~@], fwd.b, fwd.n,
                             FwdPositions, fwd.mask, fwd.kv_cache)
        /\ fwd.res.kind = "Ok" => fwd.res.scale = "sqrt(head_dim)"

\* a masked decode on a cache by a layer with use_qk_norm = true
C20_Witness ==
    /\ fwd.res.kind = "Ok" /\ fwd.cached /\ fwd.mask
    /\ attn.obj.use_qk_norm /\ fwd.res.scale = "sqrt(head_dim)"

(***************************************************************************)
(* The RoPE as a state machine: a table is built from a rope_config and a  *)
(* caller rotates query and key tensors with it.                           *)
(***************************************************************************)
\* the sequence lengths of the tensors and of the positions of a RoPE call
RopeSeqLens == {1, 2}

\* what a position of an input tensor holds: a projection, or one rotated before
RopeEntries == {<<>>, <<2>>}

RopePositions == UNION { [1 .. np -> 0 .. MaxLen] : np \in RopeSeqLens }

InitRope ==
    /\ UtilIdle
    /\ CloneIdle
    /\ config \in { c \in AttnConfigs : /\ c.num_attention_heads = 2
                                        /\ c.num_key_value_heads = 2
                                        /\ c.head_dim = 2
                                        /\ ~c.use_qk_norm }
    /\ rotary = NotBuilt(NoRope)
    /\ attn = NotBuilt(NoLayer)
    /\ held = None
    /\ fwd = NoCall
    /\ \E b \in Batches, hq \in Heads, hk \in Heads, dq \in HeadDims, dk \in HeadDims :
          \E n \in RopeSeqLens, e \in RopeEntries, positions \in RopePositions :
             rcall = [NoRopeCall EXCEPT
                         !.q = [b |-> b, h |-> hq, d |-> dq, seq |-> [i \in 1 .. n |-> e]],
                         !.k = [b |-> b, h |-> hk, d |-> dk, seq |-> [i \in 1 .. n |-> e]],
                         !.positions = positions]
    /\ CacheIdle

\* rope.forward(q_states, k_states, positions) on the table that was built; the table is
\* immutable, so one call per behaviour tells all
RopeForward ==
    /\ rotary.kind = "Ok"
    /\ ~rcall.made
    /\ rcall' = [rcall EXCEPT
                    !.made = TRUE,
                    !.res = rope_forward(rotary.obj, rcall.q, rcall.k, rcall.positions)]
    /\ UNCHANGED <<utilVars, cloneVars, cacheVars, config, rotary, attn, held, fwd, concVars>>

NextRope ==
    \/ RopeNew
    \/ RopeForward

SpecRope == InitRope /\ [][NextRope]_vars

(***************************************************************************)
(* Claims about RotaryPositionalEmbedding::forward.                        *)
(***************************************************************************)
\* what the last RoPE call came to: the code's only Err is the wrapped error of the cat of
\* line 170, whose two halves always have one shape
RopeOutcome == IF rcall.res.panic THEN "Panic" ELSE "Ok"

\* C12: RotaryPositionalEmbedding::forward returns IncompatibleShape when the last axis of
\* q or k differs from the configured dim; it never panics and never returns a tensor
\* whose shape differs from its input's shape.
C12_RopeShapeChecked ==
    rcall.made =>
        /\ (rcall.q.d # rotary.obj.dim \/ rcall.k.d # rotary.obj.dim) =>
               RopeOutcome = IncompatibleShape
        /\ RopeOutcome # "Panic"
        /\ RopeOutcome = "Ok" =>
               /\ dims(rcall.res.q) = dims(rcall.q)
               /\ dims(rcall.res.k) = dims(rcall.k)

\* the last RoPE call is one the rotation is defined for: the last axis of q and of k is
\* dim and there is one position per token
RopeCallInContract ==
    /\ rcall.made
    /\ rcall.q.d = rotary.obj.dim /\ rcall.k.d = rotary.obj.dim
    /\ Len(rcall.positions) = Len(rcall.q.seq)

AllPositionsZero == \A i \in 1 .. Len(rcall.positions) : rcall.positions[i] = 0

\* C18: RoPE forward with all positions equal to 0 returns q and k unchanged, for every
\* batch and head (q and k with last axis dim, one position per token).
C18_ZeroPositionIdentity ==
    (RopeCallInContract /\ AllPositionsZero) =>
        /\ ~rcall.res.panic
        /\ rcall.res.q = rcall.q
        /\ rcall.res.k = rcall.k

\* two tokens rotated before, two heads of four coordinates, both positions 0: unchanged
C18_Witness ==
    /\ RopeCallInContract /\ AllPositionsZero
    /\ rcall.q = [b |-> 2, h |-> 2, d |-> 4, seq |-> << <<2>>, <<2>> >>]
    /\ rcall.res.q = rcall.q /\ rcall.res.k = rcall.k

(***************************************************************************)
(* Threads sharing one cache.  A call of update_and_get is a sequence of   *)
(* steps: lock cache_data (lines 106-109), lock current_len (110-113), the *)
(* checks (115-146), the two cats (150-153), the counter (156), the        *)
(* tensors (159-160), the return that drops both guards (163-164).         *)
(***************************************************************************)
\* calls one thread makes
MaxCalls == 2

\* the tag of the chunks a thread appends
TagOf(t) == IF t = 1 THEN "a" ELSE "b"

guards_dropped_after_check(pc) == IF pc \in {"check", "return"} THEN AllGuards ELSE {}

guards_dropped_before_store(pc) == IF pc \in {"advance", "return"} THEN AllGuards ELSE {}

\* cache_guard and current_len_guard are locals of the whole function body (lines 106 and
\* 110): the guards a thread drops when it leaves step pc without returning are none, and
\* the return drops both
guards_dropped(pc) == IF pc = "return" THEN AllGuards ELSE {}

\* the guards after thread t dropped those in ls
Dropped(t, ls) == [l \in AllGuards |-> IF guards[l] = t /\ l \in ls THEN Free ELSE guards[l]]

\* thread t leaves its call with result r: its guards are dropped
Returns(t, r) ==
    /\ threads' = [threads EXCEPT ![t] = [Idle(@.calls) EXCEPT !.res = r,
                                                                !.op = threads[t].op]]
    /\ guards' = Dropped(t, AllGuards)

\* thread t goes from step pc to step to
Goes(t, to) ==
    /\ threads' = [threads EXCEPT ![t].pc = to]
    /\ guards' = Dropped(t, guards_dropped(threads[t].pc))

InitConc ==
    /\ UtilIdle
    /\ CloneIdle
    /\ \E m \in 1 .. MaxLen :
          LET c == KVCache_new(1, 2, m, 4)
          IN  /\ ctor = [batch_size |-> 1, num_heads |-> 2, max_len |-> m, head_dim |-> 4]
              /\ cache_data = c.cache_data
              /\ current_len = c.current_len
              /\ max_len = c.max_len
              /\ poisoned = c.poisoned
              /\ last = [op |-> "new", key |-> NoTensor, value |-> NoTensor,
                         pre |-> c, res |-> NoResult]
              /\ fresh = [live |-> FALSE, self |-> c, res |-> NoResult, used |-> FALSE]
    /\ singles = 0
    /\ AttnIdle
    /\ ConcIdle

\* thread t calls update_and_get(new_key_states, new_value_states)
CallUpdateAndGet(t, new_key_states, new_value_states) ==
    /\ threads[t].pc = "idle" /\ threads[t].calls < MaxCalls
    /\ threads' = [threads EXCEPT ![t] = [Idle(@.calls + 1) EXCEPT
                                             !.pc = "lock_cache_data",
                                             !.op = "update_and_get",
                                             !.key = new_key_states,
                                             !.value = new_value_states]]
    /\ UNCHANGED <<utilVars, cloneVars, cacheVars, attnVars, guards>>

\* lines 106-109: self.cache_data.lock(), blocking while another thread holds the guard
LockCacheData(t) ==
    /\ threads[t].pc = "lock_cache_data"
    /\ guards.cache_data = Free
    /\ IF poisoned.cache_data
       THEN Returns(t, Err(LockFailed))
       ELSE /\ threads' = [threads EXCEPT ![t].pc = "lock_current_len"]
            /\ guards' = [guards EXCEPT !.cache_data = t]
    /\ UNCHANGED <<utilVars, cloneVars, cacheVars, attnVars>>

\* lines 110-113: self.current_len.lock()
LockCurrentLen(t) ==
    /\ threads[t].pc = "lock_current_len"
    /\ guards.current_len = Free
    /\ IF poisoned.current_len
       THEN Returns(t, Err(LockFailed))
       ELSE /\ threads' = [threads EXCEPT ![t].pc = "check"]
            /\ guards' = [guards EXCEPT !.current_len = t]
    /\ UNCHANGED <<utilVars, cloneVars, cacheVars, attnVars>>

\* lines 115-146: the capacity check, then the shape check
CheckStep(t) ==
    /\ threads[t].pc = "check"
    /\ LET new_seq_len == dims(threads[t].key)[3]
       IN  IF exceeds_max_len(current_len, new_seq_len, max_len)
           THEN Returns(t, Err(PositionOutOfBounds))
           ELSE IF shape_mismatch(dims(cache_data.key), dims(threads[t].key),
                                  dims(threads[t].value))
           THEN Returns(t, Err(IncompatibleShape))
           ELSE /\ threads' = [threads EXCEPT
                                  ![t].pc = "cat",
                                  ![t].seen = [cache_data |-> cache_data,
                                               current_len |-> current_len]]
                /\ guards' = Dropped(t, guards_dropped("check"))
    /\ UNCHANGED <<utilVars, cloneVars, cacheVars, attnVars>>

\* lines 150-153: updated_k and updated_v are built from the stored tensors
CatStep(t) ==
    /\ threads[t].pc = "cat"
    /\ LET updated_k == Cat(cache_data.key, threads[t].key)
           updated_v == Cat(cache_data.value, threads[t].value)
       IN  IF ~updated_k.ok \/ ~updated_v.ok
           THEN Returns(t, Err(BurnTensor))
           ELSE /\ threads' = [threads EXCEPT ![t].pc = "advance",
                                              ![t].updated_k = updated_k.t,
                                              ![t].updated_v = updated_v.t]
                /\ guards' = Dropped(t, guards_dropped("cat"))
    /\ UNCHANGED <<utilVars, cloneVars, cacheVars, attnVars>>

\* line 156: *current_len_guard += new_seq_len
AdvanceStep(t) ==
    /\ threads[t].pc = "advance"
    /\ current_len' = advance_len(current_len, dims(threads[t].key)[3])
    /\ Goes(t, "store")
    /\ UNCHANGED <<utilVars, cloneVars, cache_data, max_len, poisoned, ctor, last, fresh, singles, attnVars>>

\* line 159: cache_guard.key = updated_k.clone()
StoreStep(t) ==
    /\ threads[t].pc = "store"
    /\ cache_data' = [cache_data EXCEPT !.key = threads[t].updated_k]
    /\ Goes(t, "store_value")
    /\ UNCHANGED <<utilVars, cloneVars, current_len, max_len, poisoned, ctor, last, fresh, singles, attnVars>>

\* line 160: cache_guard.value = updated_v.clone()
StoreValueStep(t) ==
    /\ threads[t].pc = "store_value"
    /\ cache_data' = [cache_data EXCEPT !.value = threads[t].updated_v]
    /\ Goes(t, "return")
    /\ UNCHANGED <<utilVars, cloneVars, current_len, max_len, poisoned, ctor, last, fresh, singles, attnVars>>

\* lines 163-164: Ok((updated_k, updated_v)), and both guards go out of scope
ReturnStep(t) ==
    /\ threads[t].pc = "return"
    /\ Returns(t, Ok(threads[t].updated_k, threads[t].updated_v, 0))
    /\ UNCHANGED <<utilVars, cloneVars, cacheVars, attnVars>>

\* a step of a call thread t is in
ThreadStep(t) ==
    \/ LockCacheData(t)
    \/ LockCurrentLen(t)
    \/ CheckStep(t)
    \/ CatStep(t)
    \/ AdvanceStep(t)
    \/ StoreStep(t)
    \/ StoreValueStep(t)
    \/ ReturnStep(t)

\* the chunks the threads append: of the cache's shape, one or two positions
ConcSeqLens == {1, 2}

NextConc ==
    \/ \E t \in Threads, n \in ConcSeqLens :
          CallUpdateAndGet(t, Tensor(ShapeOf(cache_data.key), Chunk(TagOf(t), n)),
                              Tensor(ShapeOf(cache_data.key), Chunk(TagOf(t), n)))
    \/ \E t \in Threads : ThreadStep(t)

\* a thread that is in a call and not blocked goes on: the scheduler starves no thread
SpecConc ==
    InitConc /\ [][NextConc]_vars /\ \A t \in Threads : WF_vars(ThreadStep(t))

(***************************************************************************)
(* Claims about concurrent appenders.                                      *)
(***************************************************************************)
\* thread t has passed the checks of its append and has not returned
PastCheck(t) == threads[t].pc \in {"cat", "advance", "store", "store_value", "return"}

\* the cache is what thread t's checks saw, changed by t's own writes only
Undisturbed(t) ==
    LET th == threads[t]
        n  == Len(th.key.seq)
    IN  /\ th.pc \in {"cat", "advance"} =>
               /\ cache_data = th.seen.cache_data
               /\ current_len = th.seen.current_len
        /\ th.pc = "store" =>
               /\ cache_data = th.seen.cache_data
               /\ current_len = th.seen.current_len + n
        /\ th.pc = "store_value" =>
               /\ cache_data.key.seq = th.seen.cache_data.key.seq \o th.key.seq
               /\ cache_data.value = th.seen.cache_data.value
               /\ current_len = th.seen.current_len + n
        /\ th.pc = "return" =>
               /\ cache_data.key.seq = th.seen.cache_data.key.seq \o th.key.seq
               /\ cache_data.value.seq = th.seen.cache_data.value.seq \o th.value.seq
               /\ current_len = th.seen.current_len + n

\* no thread holds a guard, and the counter is the stored length, within max_len
CounterAgrees ==
    (\A l \in AllGuards : guards[l] = Free) =>
        /\ current_len = Len(cache_data.key.seq)
        /\ current_len = Len(cache_data.value.seq)
        /\ current_len <= max_len

\* an appender's check and append were split by the other appender, or the counter and
\* the tensors disagree
SplitAppend ==
    \/ \E t \in Threads : PastCheck(t) /\ ~Undisturbed(t)
    \/ ~CounterAgrees

\* both threads are in a call of update_and_get
Contended == \A t \in Threads : threads[t].pc # "idle"

InitValidate ==
    /\ \E c \in CoreConfigs : vcall = [NoValidation EXCEPT !.config = c]
    /\ scall = NoSanitize
    /\ CloneIdle
    /\ AttnIdle
    /\ CacheIdle

ValidateCoreConfig ==
    /\ ~vcall.made
    /\ vcall' = [vcall EXCEPT !.made = TRUE, !.res = validate_core_config(vcall.config)]
    /\ UNCHANGED <<cacheVars, attnVars, concVars, cloneVars, scall>>

NextValidate == ValidateCoreConfig

SpecValidate == InitValidate /\ [][NextValidate]_vars

\* the ratios and values the claim names, for a configuration c
RatiosHold(c) ==
    /\ c.vocab_size # 0 /\ c.hidden_size # 0 /\ c.head_dim # 0
    /\ c.num_attention_heads # 0 /\ c.num_key_value_heads # 0
    /\ c.hidden_size % c.num_attention_heads = 0
    /\ c.num_attention_heads % c.num_key_value_heads = 0
    /\ c.model_type = "Gemma" => c.head_dim = c.hidden_size \div c.num_attention_heads

\* C21: validate_core_config returns a Result for every CoreGemmaModelConfig without
\* panicking; it returns Ok only when the ratios hold and the sizes are nonzero; a
\* configuration with num_attention_heads = 0 or num_key_value_heads = 0 gets
\* Err(InvalidConfig).
C21_ValidateNeverPanics ==
    vcall.made =>
        /\ vcall.res.kind \in {"Ok", "Err"}
        /\ vcall.res.kind = "Ok" => RatiosHold(vcall.config)
        /\ (vcall.config.num_attention_heads = 0 \/ vcall.config.num_key_value_heads = 0) =>
              vcall.res = Checked("Err", InvalidConfig)

(***************************************************************************)
(* Further claims about the KV cache with one owner.                       *)
(***************************************************************************)
\* C22: the returned and stored key (and value) history is the concatenation along the
\* sequence axis, in call order, of the chunks whose appends succeeded: a successful
\* append leaves the earlier entries as they were and in place and puts its chunk after
\* them, what it returns is what is stored, and a failed append contributes nothing.
C22_HistoryIsConcatenation ==
    LastIsUpdate =>
        IF last.res.kind = "Ok"
        THEN /\ cache_data.key.seq = last.pre.cache_data.key.seq \o last.key.seq
             /\ cache_data.value.seq = last.pre.cache_data.value.seq \o last.value.seq
             /\ last.res.key = cache_data.key
             /\ last.res.value = cache_data.value
        ELSE cache_data = last.pre.cache_data

\* a chunk of one caller has just been appended after a chunk of another
C22_Witness ==
    /\ LastIsUpdate /\ last.res.kind = "Ok"
    /\ last.pre.cache_data.key.seq = Chunk("a", 2)
    /\ last.key.seq = Chunk("b", 1)
    /\ cache_data.key.seq = << <<"a", 1>>, <<"a", 2>>, <<"b", 1>> >>

(***************************************************************************)
(* One cache shared by threads that call update_and_get, reset,            *)
(* get_current_values and current_seq_length, each a sequence of steps.    *)
(***************************************************************************)
\* thread t calls operation op: it is at step pc
Calls(t, op, pc) ==
    /\ threads[t].pc = "idle" /\ threads[t].calls < MaxCalls
    /\ threads' = [threads EXCEPT ![t] = [Idle(@.calls + 1) EXCEPT !.pc = pc, !.op = op]]
    /\ UNCHANGED <<utilVars, cloneVars, cacheVars, attnVars, guards>>

\* thread t locks mutex l, blocking while another thread holds its guard, and goes to
\* step to; a poisoned mutex makes the call return LockFailed
Locks(t, l, to) ==
    /\ guards[l] = Free
    /\ IF poisoned[l]
       THEN Returns(t, Err(LockFailed))
       ELSE /\ threads' = [threads EXCEPT ![t].pc = to]
            /\ guards' = [guards EXCEPT ![l] = t]
    /\ UNCHANGED <<utilVars, cloneVars, cacheVars, attnVars>>

reset_lock_order_reversed == <<"current_len", "cache_data">>

\* lines 198-205: reset locks cache_data, then current_len
reset_lock_order == <<"cache_data", "current_len">>

CallReset(t) == Calls(t, "reset", "reset_lock_1")

\* lines 198-201
ResetLockFirst(t) ==
    /\ threads[t].pc = "reset_lock_1"
    /\ Locks(t, reset_lock_order[1], "reset_lock_2")

\* lines 202-205
ResetLockSecond(t) ==
    /\ threads[t].pc = "reset_lock_2"
    /\ Locks(t, reset_lock_order[2], "reset_key")

\* lines 209-215: the dims of the stored key are read and the key is replaced
ResetKeyStep(t) ==
    /\ threads[t].pc = "reset_key"
    /\ LET d == dims(cache_data.key)
       IN  /\ cache_data' = [cache_data EXCEPT !.key = Zeros(d[1], d[2], d[4])]
           /\ threads' = [threads EXCEPT ![t].pc = "reset_value",
                                         ![t].seen = [cache_data |-> cache_data,
                                                      current_len |-> current_len]]
    /\ UNCHANGED <<utilVars, cloneVars, current_len, max_len, poisoned, ctor, last, fresh, singles,
                   attnVars, guards>>

\* line 216: the value is replaced, with the dims read at line 209
ResetValueStep(t) ==
    /\ threads[t].pc = "reset_value"
    /\ LET d == dims(threads[t].seen.cache_data.key)
       IN  cache_data' = [cache_data EXCEPT !.value = Zeros(d[1], d[2], d[4])]
    /\ threads' = [threads EXCEPT ![t].pc = "reset_len"]
    /\ UNCHANGED <<utilVars, cloneVars, current_len, max_len, poisoned, ctor, last, fresh, singles,
                   attnVars, guards>>

\* line 217: *current_len_guard = 0
ResetLenStep(t) ==
    /\ threads[t].pc = "reset_len"
    /\ current_len' = 0
    /\ threads' = [threads EXCEPT ![t].pc = "reset_return"]
    /\ UNCHANGED <<utilVars, cloneVars, cache_data, max_len, poisoned, ctor, last, fresh, singles,
                   attnVars, guards>>

\* lines 219-220: Ok(()), and both guards go out of scope
ResetReturn(t) ==
    /\ threads[t].pc = "reset_return"
    /\ Returns(t, Ok(NoTensor, NoTensor, 0))
    /\ UNCHANGED <<utilVars, cloneVars, cacheVars, attnVars>>

get_current_values_locks_none == {}

\* lines 171-174: get_current_values locks cache_data and nothing else
get_current_values_locks == {"cache_data"}

CallGetCurrentValues(t) == Calls(t, "get_current_values", "gcv_lock")

\* lines 171-174
GcvLock(t) ==
    /\ threads[t].pc = "gcv_lock"
    /\ IF "cache_data" \in get_current_values_locks
       THEN Locks(t, "cache_data", "gcv_key")
       ELSE /\ threads' = [threads EXCEPT ![t].pc = "gcv_key"]
            /\ UNCHANGED <<utilVars, cloneVars, cacheVars, attnVars, guards>>

\* line 175: cache_guard.key.clone()
GcvCloneKey(t) ==
    /\ threads[t].pc = "gcv_key"
    /\ threads' = [threads EXCEPT ![t].pc = "gcv_value", ![t].cloned.key = cache_data.key]
    /\ UNCHANGED <<utilVars, cloneVars, cacheVars, attnVars, guards>>

\* line 175: cache_guard.value.clone()
GcvCloneValue(t) ==
    /\ threads[t].pc = "gcv_value"
    /\ threads' = [threads EXCEPT ![t].pc = "gcv_return",
                                  ![t].cloned.value = cache_data.value]
    /\ UNCHANGED <<utilVars, cloneVars, cacheVars, attnVars, guards>>

\* lines 175-176: Ok((key, value)), and the guard goes out of scope
GcvReturn(t) ==
    /\ threads[t].pc = "gcv_return"
    /\ Returns(t, Ok(threads[t].cloned.key, threads[t].cloned.value, 0))
    /\ UNCHANGED <<utilVars, cloneVars, cacheVars, attnVars>>

CallCurrentSeqLength(t) == Calls(t, "current_seq_length", "csl_lock")

\* lines 180-183: current_seq_length locks current_len and nothing else
CslLock(t) ==
    /\ threads[t].pc = "csl_lock"
    /\ Locks(t, "current_len", "csl_return")

\* lines 184-185: Ok(*len_guard), and the guard goes out of scope
CslReturn(t) ==
    /\ threads[t].pc = "csl_return"
    /\ Returns(t, Ok(NoTensor, NoTensor, current_len))
    /\ UNCHANGED <<utilVars, cloneVars, cacheVars, attnVars>>

\* a step of a call of any operation thread t is in
SharedStep(t) ==
    \/ ThreadStep(t)
    \/ ResetLockFirst(t)
    \/ ResetLockSecond(t)
    \/ ResetKeyStep(t)
    \/ ResetValueStep(t)
    \/ ResetLenStep(t)
    \/ ResetReturn(t)
    \/ GcvLock(t)
    \/ GcvCloneKey(t)
    \/ GcvCloneValue(t)
    \/ GcvReturn(t)
    \/ CslLock(t)
    \/ CslReturn(t)

NextShared ==
    \/ \E t \in Threads, n \in ConcSeqLens :
          CallUpdateAndGet(t, Tensor(ShapeOf(cache_data.key), Chunk(TagOf(t), n)),
                              Tensor(ShapeOf(cache_data.key), Chunk(TagOf(t), n)))
    \/ \E t \in Threads : CallReset(t)
    \/ \E t \in Threads : CallGetCurrentValues(t)
    \/ \E t \in Threads : CallCurrentSeqLength(t)
    \/ \E t \in Threads : SharedStep(t)

\* a thread that is in a call and not blocked goes on: the scheduler starves no thread
SpecShared ==
    InitConc /\ [][NextShared]_vars /\ \A t \in Threads : WF_vars(SharedStep(t))

(***************************************************************************)
(* Claims about a cache shared by concurrent callers.                      *)
(***************************************************************************)
\* thread u has begun to write the cache in update_and_get or reset and has not finished
MidWrite(u) == threads[u].pc \in {"store", "store_value", "reset_value", "reset_len"}

\* thread t is cloning the stored tensors in get_current_values
Reading(t) == threads[t].pc \in {"gcv_key", "gcv_value", "gcv_return"}

\* C23: a get_current_values call running concurrently with update_and_get or reset gets a
\* snapshot that is entirely pre-operation or entirely post-operation: while it clones, no
\* writer is between its first and last write and the cache does not change, so the key
\* and the value it returns come from the same committed state (which may be stale by the
\* time the caller looks at it).
C23_SnapshotNotTorn ==
    \A t \in Threads :
        /\ Reading(t) => \A u \in Threads : ~MidWrite(u)
        /\ threads[t].pc = "gcv_value" => threads[t].cloned.key = cache_data.key
        /\ threads[t].pc = "gcv_return" => threads[t].cloned = cache_data
        /\ (threads[t].op = "get_current_values" /\ threads[t].res.kind = "Ok") =>
               threads[t].res.key.seq = threads[t].res.value.seq

\* thread 2 has cloned the key of a non-empty cache and not yet the value, while thread 1
\* waits for the lock of the tensor store with its second operation, an append
C23_Witness ==
    /\ threads[2].pc = "gcv_value" /\ Len(threads[2].cloned.key.seq) > 0
    /\ threads[1].pc = "lock_cache_data" /\ threads[1].calls = 2
    /\ guards.cache_data = 2

\* C24: in every interleaving of concurrent update_and_get, reset, get_current_values and
\* current_seq_length calls, whenever no call holds a lock the length counter equals the
\* sequence length of the stored key tensor and is at most max_len, and no append that
\* succeeded returned more than max_len positions: of two appenders that together would
\* overflow, not both succeed.
C24_CounterMatchesStore ==
    /\ (\A l \in AllGuards : guards[l] = Free) =>
           /\ current_len = Len(cache_data.key.seq)
           /\ current_len <= max_len
    /\ \A t \in Threads :
           threads[t].res.kind = "Ok" => Len(threads[t].res.key.seq) <= max_len

\* each thread has made one call, an append of two positions to a cache of max_len 3:
\* one succeeded and the other got PositionOutOfBounds
C24_Witness ==
    /\ max_len = 3 /\ current_len = 2
    /\ \A l \in AllGuards : guards[l] = Free
    /\ \A t \in Threads : /\ threads[t].op = "update_and_get"
                          /\ threads[t].calls = 1 /\ threads[t].pc = "idle"
    /\ threads[1].res = Err(PositionOutOfBounds)
    /\ threads[2].res.kind = "Ok" /\ Len(threads[2].res.key.seq) = 2

InCall(t) == threads[t].pc # "idle"

\* the mutex thread t is about to lock, "none" when it is not at a lock() call
WaitsFor(t) ==
    LET pc == threads[t].pc
    IN  IF pc = "lock_cache_data" THEN "cache_data"
        ELSE IF pc = "lock_current_len" THEN "current_len"
        ELSE IF pc = "reset_lock_1" THEN reset_lock_order[1]
        ELSE IF pc = "reset_lock_2" THEN reset_lock_order[2]
        ELSE IF pc = "gcv_lock" /\ "cache_data" \in get_current_values_locks THEN "cache_data"
        ELSE IF pc = "csl_lock" THEN "current_len"
        ELSE "none"

\* no thread asks for the lock of the tensor store while it holds the lock of the counter
LockOrderKept == \A t \in Threads : WaitsFor(t) = "cache_data" => guards.current_len # t

\* C25: threads concurrently calling update_and_get, reset, get_current_values and
\* current_seq_length on the same cache never deadlock: the tensor-store lock is always
\* taken before the length-counter lock, so under fair scheduling and absent panics every
\* call eventually returns: at every moment each thread is, or will later be, out of its
\* call.
C25_NoDeadlock ==
    /\ []LockOrderKept
    /\ \A t \in Threads : []<>(~InCall(t))

\* thread 1 holds both locks in reset while thread 2 waits for the lock of the tensor
\* store in update_and_get
C25_Witness ==
    /\ threads[1].pc = "reset_value" /\ guards.cache_data = 1 /\ guards.current_len = 1
    /\ threads[2].pc = "lock_cache_data" /\ threads[2].op = "update_and_get"

(***************************************************************************)
(* The cache with one owner whose new key and new value may differ in      *)
(* sequence length: update_and_get compares every axis but that one.       *)
(***************************************************************************)
\* the longest value history the model follows
MaxValueLen == MaxLen + 2

\* an append of kn key positions and vn value positions of the cache's shape
RaggedUpdateAndGet(kn, vn) ==
    /\ Len(cache_data.value.seq) + vn <= MaxValueLen
    /\ UpdateAndGet(Tensor(ShapeOf(cache_data.key), Chunk("a", kn)),
                    Tensor(ShapeOf(cache_data.key), Chunk("a", vn)))

NextCacheRagged ==
    \/ \E kn \in NewSeqLens, vn \in NewSeqLens : RaggedUpdateAndGet(kn, vn)
    \/ CurrentSeqLength
    \/ Reset

SpecCacheRagged == InitCache /\ [][NextCacheRagged]_vars

\* C26: after any sequence of update_and_get and reset calls, for every input
\* update_and_get accepts, the stored key's sequence length, the stored value's sequence
\* length and current_seq_length() are all equal.
C26_LengthsAgree ==
    /\ Len(cache_data.key.seq) = Len(cache_data.value.seq)
    /\ current_seq_length(Self).res = Ok(NoTensor, NoTensor, Len(cache_data.key.seq))

(***************************************************************************)
(* Claims about what forward puts into the cache it returns.               *)
(***************************************************************************)
\* the cache the last forward call was given: an empty history when it was given none
FwdHistory ==
    IF fwd.cached THEN [key |-> fwd.kv_cache.key.seq, value |-> fwd.kv_cache.value.seq]
    ELSE [key |-> <<>>, value |-> <<>>]

\* a key rotated once, by the angles of position p, and never again
RotatedOnceAt(p) == rotate(<<>>, cached_angle(p))

\* C27: key caching happens after rotation: the cache a forward call returns holds the keys
\* of the supplied cache as they were, not rotated again, followed by the keys of the
\* tokens of the call, each rotated exactly once, at its own absolute position; the values
\* are cached unrotated.  Across calls every cached key therefore carries one rotation, the
\* one of the call that introduced it.
C27_RotatedOnceThenCached ==
    (fwd.res.kind = "Ok" /\ WellFormedCall) =>
        /\ fwd.res.cache.key.seq
             = FwdHistory.key \o [i \in 1 .. fwd.n |-> RotatedOnceAt(fwd.len + i - 1)]
        /\ fwd.res.cache.value.seq = FwdHistory.value \o [i \in 1 .. fwd.n |-> <<>>]
        /\ (\A j \in 1 .. fwd.len : FwdHistory.key[j] = RotatedOnceAt(j - 1)) =>
              \A j \in 1 .. fwd.len + fwd.n : fwd.res.cache.key.seq[j] = RotatedOnceAt(j - 1)

\* a prefill of two tokens, then two one-token decodes, each on the cache of the call before
C27_Witness ==
    /\ fwd.res.kind = "Ok" /\ WellFormedCall /\ fwd.cached /\ fwd.n = 1
    /\ fwd.kv_cache.key.seq = << <<>>, <<1>>, <<2>> >>
    /\ fwd.res.cache.key.seq = << <<>>, <<1>>, <<2>>, <<3>> >>
    /\ fwd.res.cache.value.seq = << <<>>, <<>>, <<>>, <<>> >>

\* C28: for any sequence of forward calls and any num_kv_groups, the cache forward returns
\* stores key and value with a head axis of num_key_value_heads, the heads before the
\* expansion and never the tiled num_attention_heads, so the cache returned by one call is
\* shape-compatible as the cache input of the next call with the same batch size: its
\* concatenation with the new keys and values does not fail.
C28_CacheKeepsKvHeads ==
    /\ fwd.res.kind = "Ok" =>
          /\ fwd.res.cache.key.h = attn.obj.num_key_value_heads
          /\ fwd.res.cache.value.h = attn.obj.num_key_value_heads
    /\ held.some =>
          /\ held.key.h = attn.obj.num_key_value_heads
          /\ held.value.h = attn.obj.num_key_value_heads
    /\ (fwd.cached /\ fwd.kv_cache.key.b = fwd.b) => fwd.res.err # BurnTensor

\* eight query heads on two kv heads: a decode on the cache of an earlier call succeeded
\* and returned a cache of two heads
C28_Witness ==
    /\ fwd.res.kind = "Ok" /\ fwd.cached /\ fwd.len > 0
    /\ attn.obj.num_attention_heads = 8 /\ attn.obj.num_key_value_heads = 2
    /\ attn.obj.num_kv_groups = 4
    /\ fwd.res.cache.key.h = 2 /\ fwd.res.scores[2] = 8

(***************************************************************************)
(* A cache and its clones: KVCache structs whose cache_data and            *)
(* current_len are Arc pointers (kv_cache.rs lines 48-58), used by one     *)
(* caller at a time.                                                       *)
(***************************************************************************)
\* the fields of the cache behind a KVCache struct, as its operations see them
Deref(handle) ==
    [cache_data  |-> arcs[handle.cache_data].data,
     max_len     |-> handle.max_len,
     current_len |-> arcs[handle.current_len].len,
     poisoned    |-> [cache_data |-> FALSE, current_len |-> FALSE]]

\* the allocations after an operation through handle left the cache as self
Written(handle, self) ==
    [a \in Addresses |->
        IF a = handle.cache_data THEN [arcs[a] EXCEPT !.data = self.cache_data]
        ELSE IF a = handle.current_len THEN [arcs[a] EXCEPT !.len = self.current_len]
        ELSE arcs[a]]

\* the lowest address of heap nothing is allocated at
NewAddress(heap) == CHOOSE a \in Addresses : ~heap[a].live /\ \A b \in 1 .. a - 1 : heap[b].live

KVCache_clone_deep(handle, heap) ==
    LET a1 == NewAddress(heap)
        h1 == [heap EXCEPT ![a1] = [heap[handle.cache_data] EXCEPT !.live = TRUE]]
        a2 == NewAddress(h1)
        h2 == [h1 EXCEPT ![a2] = [heap[handle.current_len] EXCEPT !.live = TRUE]]
    IN  [handle |-> [handle EXCEPT !.cache_data = a1, !.current_len = a2], heap |-> h2]

\* #[derive(Clone)] (line 48): every field is cloned; the clone of an Arc is a pointer to
\* the same allocation, the clone of max_len a copy of the number
KVCache_clone(handle, heap) == [handle |-> handle, heap |-> heap]

InitClone ==
    /\ \E m \in 1 .. MaxLen :
          LET c == KVCache_new(1, 2, m, 4)
          IN  /\ arcs = [a \in Addresses |->
                            IF a = 1 THEN ArcOfCache(c.cache_data)
                            ELSE IF a = 2 THEN ArcOfLen(c.current_len)
                            ELSE Unallocated]
              /\ handles = << [cache_data |-> 1, current_len |-> 2, max_len |-> c.max_len] >>
    /\ hcall = NoHandleCall
    /\ UtilIdle
    /\ AttnIdle
    /\ CacheIdle

HandleCall(h, op, r) == [made |-> TRUE, h |-> h, op |-> op, res |-> r]

\* handles[h].clone()
CloneHandle(h) ==
    /\ Len(handles) < MaxHandles
    /\ LET c == KVCache_clone(handles[h], arcs)
       IN  /\ handles' = Append(handles, c.handle)
           /\ arcs' = c.heap
    /\ hcall' = HandleCall(h, "clone", NoResult)
    /\ UNCHANGED <<cacheVars, attnVars, concVars, utilVars>>

\* an operation through handles[h] that came out as out
Through(h, op, out) ==
    /\ arcs' = Written(handles[h], out.self)
    /\ hcall' = HandleCall(h, op, out.res)
    /\ UNCHANGED <<cacheVars, attnVars, concVars, utilVars, handles>>

UpdateAndGetVia(h, k, v) ==
    Through(h, "update_and_get", update_and_get(Deref(handles[h]), k, v))

ResetVia(h) == Through(h, "reset", reset(Deref(handles[h])))

GetCurrentValuesVia(h) ==
    Through(h, "get_current_values", get_current_values(Deref(handles[h])))

CurrentSeqLengthVia(h) ==
    Through(h, "current_seq_length", current_seq_length(Deref(handles[h])))

MaxSequenceLengthVia(h) ==
    Through(h, "max_sequence_length", max_sequence_length(Deref(handles[h])))

\* the chunks appended through the handles: of the cache's shape, one or two positions
CloneChunks == { Tensor(<<1, 2, 4>>, Chunk(tag, n)) : tag \in Tags, n \in {1, 2} }

NextClone ==
    \E h \in 1 .. Len(handles) :
        \/ CloneHandle(h)
        \/ \E x \in CloneChunks : UpdateAndGetVia(h, x, x)
        \/ ResetVia(h)
        \/ GetCurrentValuesVia(h)
        \/ CurrentSeqLengthVia(h)
        \/ MaxSequenceLengthVia(h)

SpecClone == InitClone /\ [][NextClone]_vars

\* what get_current_values and current_seq_length return through handle number g
SeenThrough(g) ==
    [values |-> get_current_values(Deref(handles[g])).res,
     len    |-> current_seq_length(Deref(handles[g])).res,
     max    |-> max_sequence_length(Deref(handles[g])).res]

\* C29: clones of a KVCache are handles to the same cache instance: what an update_and_get
\* or a reset through one clone did is what get_current_values and current_seq_length
\* return through every other clone, and all clones have the same max_len.
C29_ClonesShareCache ==
    \A g \in 1 .. Len(handles) :
        /\ SeenThrough(g) = SeenThrough(1)
        /\ (hcall.op = "update_and_get" /\ hcall.res.kind = "Ok") =>
               /\ SeenThrough(g).values = Ok(hcall.res.key, hcall.res.value, 0)
               /\ SeenThrough(g).len = Ok(NoTensor, NoTensor, Len(hcall.res.key.seq))
        /\ (hcall.op = "reset" /\ hcall.res.kind = "Ok") =>
               /\ SeenThrough(g).values.key.seq = <<>>
               /\ SeenThrough(g).values.value.seq = <<>>
               /\ SeenThrough(g).len = Ok(NoTensor, NoTensor, 0)

\* three structs exist, and an append through the third has just put a chunk after one
\* that was appended through another
C29_Witness ==
    /\ Len(handles) = 3 /\ hcall.h = 3 /\ hcall.op = "update_and_get"
    /\ hcall.res.kind = "Ok"
    /\ hcall.res.key.seq = << <<"a", 1>>, <<"b", 1>>, <<"b", 2>> >>
    /\ SeenThrough(1).len = Ok(NoTensor, NoTensor, 3)

(***************************************************************************)
(* sanitize_path_component as a state machine: a component is chosen and   *)
(* the function is called on it once.                                      *)
(***************************************************************************)
InitSanitize ==
    /\ \E component \in Components : scall = [NoSanitize EXCEPT !.component = component]
    /\ vcall = NoValidation
    /\ CloneIdle
    /\ AttnIdle
    /\ CacheIdle

SanitizePathComponent ==
    /\ ~scall.made
    /\ scall' = [scall EXCEPT !.made = TRUE, !.res = sanitize_path_component(scall.component)]
    /\ UNCHANGED <<cacheVars, attnVars, concVars, cloneVars, vcall>>

NextSanitize == SanitizePathComponent

SpecSanitize == InitSanitize /\ [][NextSanitize]_vars

\* an ASCII letter, an ASCII digit, or one of - _ .
AsciiLetter(c) == (c >= 65 /\ c <= 90) \/ (c >= 97 /\ c <= 122)
AsciiDigit(c) == c >= 48 /\ c <= 57
SafePunctuation(c) == c \in {45, 95, 46}

====
